---- MODULE Spec2Model ----
(***************************************************************************)
(* Model of the atlas alignment and region time-series extraction engine:  *)
(* extract_timeseries.py (align_atlas_to_target, extract_timeseries) as    *)
(* driven by batch_extract.py (batch_process).                             *)
(*                                                                         *)
(* The registration tool, the resampler and the labels masker are external *)
(* collaborators: their outcomes (exit status, exception, returned label   *)
(* list and signal matrix) are inputs chosen nondeterministically.         *)
(***************************************************************************)
EXTENDS Integers, Sequences, FiniteSets, TLC

\* ---------------------------------------------------------------- bounds
MaxLabel == 2        \* atlas voxel values are drawn from 0..MaxLabel
MaxFiles == 2        \* length of the batch's file list is in 1..MaxFiles
MaxT     == 2        \* time points of a 4-D functional volume are in 1..MaxT
MaxVox   == 2        \* voxels of a target's spatial grid are in 1..MaxVox

\* ---------------------------------------------------------------- values
NaN == -1            \* pandas' missing value, produced by reindex
BgName == -2         \* a leading non-numeric background entry of masker.labels_

Range(s) == {s[k] : k \in 1..Len(s)}

\* every sequence of distinct elements of S (any subset, any order)
Arrangements(S) ==
    UNION {{f \in [1..n -> S] : \A a, b \in 1..n : a # b => f[a] # f[b]} :
           n \in 0..Cardinality(S)}

RECURSIVE SortedSeq(_)
\* sorted(list(S)): the elements of S in ascending order
SortedSeq(S) ==
    IF S = {} THEN <<>>
    ELSE LET m == CHOOSE x \in S : \A y \in S : x <= y
         IN  <<m>> \o SortedSeq(S \ {m})

IndexOf(s, x) == CHOOSE k \in 1..Len(s) : s[k] = x

\* mean signal the masker computes for region l of input f at time t
Signal(f, l, t) == ((3 * f) + (2 * l) + (5 * t)) % 7

\* masker.fit_transform: a (T x regions) matrix, one column per region of regs
FitTransform(f, regs, T) ==
    [t \in 1..T |-> [c \in 1..Len(regs) |-> Signal(f, regs[c], t)]]

\* masker.labels_: the region ids, optionally preceded by a background entry
LabelsAttr(lead, regs) ==
    CASE lead = "none" -> regs
      [] lead = "zero" -> <<0>> \o regs
      [] OTHER         -> <<BgName>> \o regs

Leadings == {"none", "zero", "name"}

\* time_series.shape[1]
NCols(ts) == Len(ts[1])

\* ------------------------------------------------- extract_timeseries: data
\* lines 161-162 (the caller guarantees a non-empty list)
StripBackground(labels) ==
    IF labels[1] = 0 THEN Tail(labels) ELSE labels

\* CanonicalLabels without the removal of the background value
CanonicalLabelsKeepZero(values) == SortedSeq(values)

\* CanonicalLabels that tests the last element for the background value
CanonicalLabelsCheckLast(values) ==
    LET all == SortedSeq(values)
    IN  IF all[Len(all)] = 0 THEN SubSeq(all, 1, Len(all) - 1) ELSE all

\* lines 169-171: distinct values of the original atlas, ascending, without
\* a leading 0
CanonicalLabels(values) ==
    LET all == SortedSeq(values)
    IN  IF all[1] = 0 THEN Tail(all) ELSE all

\* lines 179-181 and 192-194
CurrentLabels(labels, ncols) ==
    IF Len(labels) = ncols + 1 THEN Tail(labels) ELSE labels

\* DataFrame built from time_series[1:]
DataFrameDropRow(ts, cols) ==
    [ok |-> Len(cols) = NCols(ts), columns |-> cols, rows |-> Tail(ts)]

\* pd.DataFrame(time_series, columns=...): raises on a width mismatch
DataFrame(ts, cols) ==
    [ok |-> Len(cols) = NCols(ts), columns |-> cols, rows |-> ts]

\* lines 185-188: a 0.0 column appended for every canonical label not present
PadMissing(df, all_labels) ==
    LET Missing(l) == l \notin Range(df.columns)
        add == SelectSeq(all_labels, Missing)
    IN  [df EXCEPT !.columns = @ \o add,
                   !.rows = [t \in 1..Len(@) |->
                               @[t] \o [k \in 1..Len(add) |-> 0]]]

\* Reindex as a positional relabelling (df.columns = labels)
ReindexByPosition(df, labels) ==
    [df EXCEPT !.columns = labels]

\* line 190: df.reindex(columns=labels), selection by label, NaN if absent
Reindex(df, labels) ==
    [df EXCEPT !.columns = labels,
               !.rows = [t \in 1..Len(@) |->
                           [k \in 1..Len(labels) |->
                              IF labels[k] \in Range(df.columns)
                              THEN @[t][IndexOf(df.columns, labels[k])]
                              ELSE NaN]]]

\* lines 176-190
PaddedFrame(ts, labels, all_labels) ==
    LET df == DataFrame(ts, CurrentLabels(labels, NCols(ts)))
    IN  IF df.ok THEN Reindex(PadMissing(df, all_labels), all_labels) ELSE df

\* PlainFrame that drops the first signal column as if it were background
PlainFrameDropFirst(ts, labels, all_labels) ==
    DataFrame([t \in 1..Len(ts) |-> Tail(ts[t])],
              Tail(CurrentLabels(labels, NCols(ts))))

\* lines 192-195
PlainFrame(ts, labels, all_labels) ==
    DataFrame(ts, CurrentLabels(labels, NCols(ts)))

\* lines 175-195
Reconcile(ts, labels, all_labels) ==
    IF NCols(ts) < Len(all_labels)
    THEN PaddedFrame(ts, labels, all_labels)
    ELSE PlainFrame(ts, labels, all_labels)

\* line 199: df.to_csv(output_csv, index=False): header row, then data rows
NoFile == [exists |-> FALSE, header |-> <<>>, rows |-> <<>>]
OldFile == [exists |-> TRUE, header |-> <<>>, rows |-> <<>>]
ToCsv(df) == [exists |-> TRUE, header |-> df.columns, rows |-> df.rows]

NoFrame == [ok |-> FALSE, columns |-> <<>>, rows |-> <<>>]

\* ------------------------------------------------- align_atlas_to_target: data
\* An image is its shape and the set of its distinct voxel values; the three
\* spatial axes are one axis here, so a 3-D shape is <<n>> and a 4-D shape
\* <<n, T>>.
NoImage == [shape |-> <<>>, values |-> {}]

\* lines 52-60 and 95-96: target_img.slicer[..., 0] for a 4-D target, the
\* target itself otherwise
Reference(shape) ==
    IF Len(shape) = 2 THEN SubSeq(shape, 1, 1) ELSE shape

\* the resampler's default interpolation, taken when none is passed
ResampleModeDefault == "continuous"

\* line 103: interpolation='nearest'
ResampleMode == "nearest"

\* line 69: "-n", "GenericLabel"
AntsMode == "GenericLabel"

\* the values one output voxel can take when an image with voxel values src
\* is resampled: a label interpolator copies one source value or fills 0
\* outside the field of view, any other interpolator also blends neighbours
VoxelValues(mode, src) ==
    IF mode \in {"nearest", "GenericLabel"}
    THEN src \cup {0}
    ELSE LET all == src \cup {0}
         IN  {v \in 0..MaxLabel : \E a, b \in all : a <= v /\ v <= b}

\* the images a resampling of an atlas with voxel values src onto a
\* reference of the given shape can produce
Resamplings(mode, src, refshape) ==
    {[shape |-> refshape, values |-> V] :
        V \in {W \in SUBSET VoxelValues(mode, src) :
                  W # {} /\ Cardinality(W) <= refshape[1]}}

\* ----------------------------------------------------------------- state
VARIABLES
    atlas,          \* distinct voxel values of the original atlas file
    nfiles,         \* len(files)
    tables,         \* output path of input k -> file content
    alignedTmp,     \* inputs whose temporary aligned atlas exists on disk
    refTmp,         \* inputs whose temporary 3-D reference volume exists
    wrote,          \* inputs whose latest call wrote its output table
    status,         \* outcome of the latest visit of input k
    i,              \* loop index of batch_process (1-based)
    bpc,            \* position of batch_process
    success_count,
    error_count,
    cpc,            \* position of the running extract_timeseries call
    transform_path, \* TRUE iff a transform was supplied to the call
    is4d,           \* len(target_img.shape) == 4, inside align_atlas_to_target
    extracted_labels, \* masker.labels_ (line 158), less a leading 0 after line 162
    time_series,    \* masker.fit_transform(input_4d)
    df,             \* the reconciled frame
    resampled,      \* TRUE iff the running call invoked resample_to_img
    target_shape,   \* shape of the input volume of the running call
    aligned,        \* the aligned atlas image awaiting the masker
    progress        \* stages the running call has completed, in order

vars == <<atlas, nfiles, tables, alignedTmp, refTmp, resampled, wrote, status,
          i, bpc, success_count, error_count, cpc, transform_path, is4d,
          extracted_labels, time_series, df, progress, target_shape, aligned>>

fsVars == <<tables, alignedTmp, refTmp, wrote>>
callVars == <<transform_path, is4d, resampled>>
batchVars == <<i, bpc, success_count, error_count>>
dataVars == <<extracted_labels, time_series, df>>
imgVars == <<target_shape, aligned>>

Init ==
    /\ atlas \in {S \in SUBSET (0..MaxLabel) : \E l \in S : l > 0}
    /\ nfiles \in 1..MaxFiles
    /\ tables \in [1..nfiles -> {NoFile, OldFile}]
    /\ alignedTmp = {}
    /\ refTmp = {}
    /\ resampled = FALSE
    /\ wrote = {}
    /\ status = [k \in 1..nfiles |-> "none"]
    /\ i = 1
    /\ bpc = "loop"
    /\ success_count = 0
    /\ error_count = 0
    /\ cpc = "idle"
    /\ transform_path = FALSE
    /\ is4d = FALSE
    /\ extracted_labels = <<>>
    /\ time_series = <<>>
    /\ df = NoFrame
    /\ progress = <<>>
    /\ target_shape = <<>>
    /\ aligned = NoImage

\* ------------------------------------------------------ batch_process loop
\* lines 145-147: the output exists, the input is skipped
BatchSkip ==
    /\ bpc = "loop" /\ i <= nfiles
    /\ tables[i].exists
    /\ status' = [status EXCEPT ![i] = "skipped"]
    /\ i' = i + 1
    /\ UNCHANGED <<atlas, nfiles, imgVars, fsVars, bpc, success_count, error_count,
                   cpc, transform_path, is4d, resampled, dataVars, progress>>

\* BatchCall without the existence check of lines 145-147
BatchCallAlways ==
    /\ bpc = "loop" /\ i <= nfiles
    /\ \E tr \in BOOLEAN : transform_path' = tr
    /\ bpc' = "call"
    /\ cpc' = "align"
    /\ status' = [status EXCEPT ![i] = "running"]
    /\ wrote' = wrote \ {i}
    /\ progress' = <<>>
    /\ UNCHANGED <<atlas, nfiles, imgVars, tables, alignedTmp, refTmp, resampled, i,
                   success_count, error_count, is4d, dataVars>>

\* lines 149-166: look up the transform and enter extract_timeseries
BatchCall ==
    /\ bpc = "loop" /\ i <= nfiles
    /\ ~tables[i].exists
    /\ \E tr \in BOOLEAN : transform_path' = tr
    /\ bpc' = "call"
    /\ cpc' = "align"
    /\ status' = [status EXCEPT ![i] = "running"]
    /\ wrote' = wrote \ {i}
    /\ progress' = <<>>
    /\ UNCHANGED <<atlas, nfiles, imgVars, tables, alignedTmp, refTmp, resampled, i,
                   success_count, error_count, is4d, dataVars>>

\* ------------------------------------------------- align_atlas_to_target
\* lines 30-60 and 91-96: mkstemp for the aligned atlas, load the target,
\* and on the transform path save its first volume as a temporary reference
AlignPrepare ==
    /\ cpc = "align"
    /\ \E n \in 1..MaxVox, T \in 0..MaxT :
          /\ target_shape' = IF T = 0 THEN <<n>> ELSE <<n, T>>
          /\ is4d' = (T > 0)
          /\ refTmp' = IF transform_path /\ T > 0 THEN refTmp \cup {i}
                       ELSE refTmp
    /\ alignedTmp' = alignedTmp \cup {i}
    /\ cpc' = IF transform_path THEN "ants" ELSE "resample"
    /\ UNCHANGED <<atlas, nfiles, aligned, tables, resampled, wrote, status,
                   batchVars, transform_path, dataVars, progress>>

\* lines 62-74 and 84-86: the tool exits 0 and has written the aligned atlas
\* on the reference's grid; the temporary reference is removed
AntsOk ==
    /\ cpc = "ants"
    /\ aligned' \in Resamplings(AntsMode, atlas, Reference(target_shape))
    /\ refTmp' = IF is4d THEN refTmp \ {i} ELSE refTmp
    /\ is4d' = FALSE
    /\ cpc' = "extract"
    /\ progress' = Append(progress, "align")
    /\ UNCHANGED <<atlas, nfiles, target_shape, tables, alignedTmp, resampled,
                   wrote, status, batchVars, transform_path, dataVars>>

\* AntsFail without the removal of the temporary reference
AntsFailKeepRef ==
    /\ cpc = "ants"
    /\ status' = [status EXCEPT ![i] = "ants_fail"]
    /\ cpc' = "exited"
    /\ target_shape' = <<>>
    /\ UNCHANGED <<atlas, nfiles, aligned, tables, alignedTmp, refTmp,
                   resampled, wrote, batchVars, transform_path, is4d,
                   dataVars, progress>>

\* lines 75-82: the tool exits non-zero; the reference is removed, sys.exit(1)
AntsFail ==
    /\ cpc = "ants"
    /\ refTmp' = IF is4d THEN refTmp \ {i} ELSE refTmp
    /\ status' = [status EXCEPT ![i] = "ants_fail"]
    /\ cpc' = "exited"
    /\ target_shape' = <<>>
    /\ UNCHANGED <<atlas, nfiles, aligned, tables, alignedTmp, resampled,
                   wrote, batchVars, transform_path, is4d, dataVars, progress>>

\* lines 91-108: nearest-neighbour resampling onto the reference, saved to
\* the temporary file
ResampleOk ==
    /\ cpc = "resample"
    /\ resampled' = TRUE
    /\ aligned' \in Resamplings(ResampleMode, atlas, Reference(target_shape))
    /\ is4d' = FALSE
    /\ cpc' = "extract"
    /\ progress' = Append(progress, "align")
    /\ UNCHANGED <<atlas, nfiles, target_shape, tables, alignedTmp, refTmp,
                   wrote, status, batchVars, transform_path, dataVars>>

\* lines 98-107: resample_to_img or nib.save raises; nothing handles it here
ResampleRaise ==
    /\ cpc = "resample"
    /\ resampled' = TRUE
    /\ status' = [status EXCEPT ![i] = "align_error"]
    /\ cpc' = "raised"
    /\ target_shape' = <<>>
    /\ UNCHANGED <<atlas, nfiles, aligned, tables, alignedTmp, refTmp, wrote,
                   batchVars, transform_path, is4d, dataVars, progress>>

\* ---------------------------------------------------- extract_timeseries
\* ExtractOk that writes the raw table before reconciliation
ExtractOkWritesRaw ==
    /\ cpc = "extract"
    /\ \E regs \in Arrangements({l \in aligned.values : l > 0}),
          lead \in Leadings :
          LET T == IF Len(target_shape) = 2 THEN target_shape[2] ELSE 1
          IN  /\ extracted_labels' = LabelsAttr(lead, regs)
              /\ time_series' = FitTransform(i, regs, T)
              /\ tables' = [tables EXCEPT
                    ![i] = ToCsv(DataFrame(FitTransform(i, regs, T), regs))]
    /\ wrote' = wrote \cup {i}
    /\ target_shape' = <<>>
    /\ aligned' = NoImage
    /\ cpc' = "reconcile"
    /\ progress' = Append(progress, "extract")
    /\ UNCHANGED <<atlas, nfiles, alignedTmp, refTmp, resampled, status,
                   batchVars, transform_path, is4d, df>>

\* lines 144-149, 158: the masker returns signals for some of the regions of
\* the aligned atlas (a mask or an empty region drops the others), in some
\* order; a 3-D target is a single time point
ExtractOk ==
    /\ cpc = "extract"
    /\ \E regs \in Arrangements({l \in aligned.values : l > 0}),
          lead \in Leadings :
          LET T == IF Len(target_shape) = 2 THEN target_shape[2] ELSE 1
          IN  /\ extracted_labels' = LabelsAttr(lead, regs)
              /\ time_series' = FitTransform(i, regs, T)
    /\ target_shape' = <<>>
    /\ aligned' = NoImage
    /\ cpc' = "reconcile"
    /\ progress' = Append(progress, "extract")
    /\ UNCHANGED <<atlas, nfiles, fsVars, status, batchVars, transform_path,
                   is4d, resampled, df>>

\* lines 150-155: fit_transform raises; the aligned atlas is removed, sys.exit(1)
ExtractFail ==
    /\ cpc = "extract"
    /\ alignedTmp' = alignedTmp \ {i}
    /\ status' = [status EXCEPT ![i] = "extract_fail"]
    /\ target_shape' = <<>>
    /\ aligned' = NoImage
    /\ cpc' = "exited"
    /\ UNCHANGED <<atlas, nfiles, tables, refTmp, resampled, wrote, batchVars,
                   transform_path, is4d, dataVars, progress>>

\* an exception leaving extract_timeseries takes the frame's locals with it
DropLocals ==
    /\ extracted_labels' = <<>>
    /\ time_series' = <<>>
    /\ df' = NoFrame

\* line 161: masker.labels_ is empty, extracted_labels[0] raises IndexError
LabelsRaise ==
    /\ cpc = "reconcile"
    /\ extracted_labels = <<>>
    /\ status' = [status EXCEPT ![i] = "reconcile_error"]
    /\ cpc' = "raised"
    /\ DropLocals
    /\ UNCHANGED <<atlas, nfiles, imgVars, fsVars, batchVars, callVars, progress>>

\* line 167: nib.load(atlas_3d) raises
AtlasLoadRaise ==
    /\ cpc = "reconcile"
    /\ extracted_labels # <<>>
    /\ status' = [status EXCEPT ![i] = "reconcile_error"]
    /\ cpc' = "raised"
    /\ DropLocals
    /\ UNCHANGED <<atlas, nfiles, imgVars, fsVars, batchVars, callVars, progress>>

\* lines 161-195: the frame is built, padded and reordered
ReconcileOk ==
    /\ cpc = "reconcile"
    /\ extracted_labels # <<>>
    /\ LET frame == Reconcile(time_series, StripBackground(extracted_labels),
                              CanonicalLabels(atlas))
       IN  /\ frame.ok
           /\ df' = frame
    /\ extracted_labels' = StripBackground(extracted_labels)
    /\ cpc' = "write"
    /\ progress' = Append(progress, "reconcile")
    /\ UNCHANGED <<atlas, nfiles, imgVars, fsVars, status, batchVars,
                   transform_path, is4d, resampled, time_series>>

\* lines 199-206: the table is written, the aligned atlas removed, return
WriteOk ==
    /\ cpc = "write"
    /\ tables' = [tables EXCEPT ![i] = ToCsv(df)]
    /\ wrote' = wrote \cup {i}
    /\ alignedTmp' = alignedTmp \ {i}
    /\ status' = [status EXCEPT ![i] = "ok"]
    /\ cpc' = "returned"
    /\ progress' = Append(progress, "write")
    /\ UNCHANGED <<atlas, nfiles, imgVars, refTmp, resampled, batchVars,
                   transform_path, is4d, dataVars>>

\* line 199: to_csv cannot open the output path and raises
WriteRaise ==
    /\ cpc = "write"
    /\ status' = [status EXCEPT ![i] = "write_error"]
    /\ cpc' = "raised"
    /\ DropLocals
    /\ UNCHANGED <<atlas, nfiles, imgVars, fsVars, batchVars, callVars, progress>>

\* --------------------------------------------- batch_process, after a call
ClearCall ==
    /\ cpc' = "idle"
    /\ transform_path' = FALSE
    /\ is4d' = FALSE
    /\ resampled' = FALSE
    /\ extracted_labels' = <<>>
    /\ time_series' = <<>>
    /\ df' = NoFrame
    /\ progress' = <<>>

\* line 167: the call returned
BatchSuccess ==
    /\ bpc = "call" /\ cpc = "returned"
    /\ success_count' = success_count + 1
    /\ i' = i + 1
    /\ bpc' = "loop"
    /\ ClearCall
    /\ UNCHANGED <<atlas, nfiles, imgVars, fsVars, status, error_count>>

\* lines 169-173: except Exception
BatchCatch ==
    /\ bpc = "call" /\ cpc = "raised"
    /\ error_count' = error_count + 1
    /\ i' = i + 1
    /\ bpc' = "loop"
    /\ ClearCall
    /\ UNCHANGED <<atlas, nfiles, imgVars, fsVars, status, success_count>>

\* lines 133, 169: SystemExit is not an Exception; it leaves batch_process
BatchExit ==
    /\ bpc = "call" /\ cpc = "exited"
    /\ bpc' = "aborted"
    /\ ClearCall
    /\ UNCHANGED <<atlas, nfiles, imgVars, fsVars, status, i, success_count,
                   error_count>>

\* lines 175-179: the loop is over, the summary is printed
BatchSummary ==
    /\ bpc = "loop" /\ i > nfiles
    /\ bpc' = "done"
    /\ UNCHANGED <<atlas, nfiles, imgVars, fsVars, status, i, success_count,
                   error_count, cpc, transform_path, is4d, resampled,
                   dataVars, progress>>

\* lines 181-217: batch_process is started again over the same inputs, after
\* a run that emitted a table for each of them
BatchRerun ==
    /\ bpc = "done"
    /\ wrote = 1..nfiles
    /\ bpc' = "loop"
    /\ i' = 1
    /\ success_count' = 0
    /\ error_count' = 0
    /\ status' = [k \in 1..nfiles |-> "none"]
    /\ wrote' = {}
    /\ UNCHANGED <<atlas, nfiles, imgVars, tables, alignedTmp, refTmp, cpc,
                   callVars, dataVars, progress>>

Next ==
    \/ BatchSkip
    \/ BatchCall
    \/ AlignPrepare
    \/ AntsOk
    \/ AntsFail
    \/ ResampleOk
    \/ ResampleRaise
    \/ ExtractOk
    \/ ExtractFail
    \/ LabelsRaise
    \/ AtlasLoadRaise
    \/ ReconcileOk
    \/ WriteOk
    \/ WriteRaise
    \/ BatchSuccess
    \/ BatchCatch
    \/ BatchExit
    \/ BatchSummary
    \/ BatchRerun

Spec == Init /\ [][Next]_vars

TypeOK ==
    /\ bpc \in {"loop", "call", "done", "aborted"}
    /\ success_count + error_count <= nfiles
    /\ wrote \subseteq 1..nfiles

\* ------------------------------------------------------------ vocabulary
\* the canonical region set: the distinct positive labels of the atlas
Canonical == {l \in atlas : l > 0}

\* the regions the masker returned signals for, in the order it returned them
Regions == SelectSeq(extracted_labels, LAMBDA l : l > 0)

IsAscending(s) == \A a, b \in 1..Len(s) : a < b => s[a] < s[b]

\* the column of label l in a written table
Column(tab, l) ==
    [t \in 1..Len(tab.rows) |-> tab.rows[t][IndexOf(tab.header, l)]]

FatalStatuses ==
    {"ants_fail", "align_error", "extract_fail", "reconcile_error",
     "write_error"}

\* the running call has just returned after writing its table
Emitted == cpc = "returned" /\ i \in wrote

\* ---------------------------------------------------------------- claims
\* C1: every table a call emits has exactly K data columns, K the number of
\* distinct positive labels of the original atlas, however many of these
\* regions the masker returned.
FixedWidth ==
    \A k \in wrote : Len(tables[k].header) = Cardinality(Canonical)

\* C1 witness: a table was emitted although the masker returned fewer
\* regions than the atlas has.
FixedWidthWitness ==
    /\ Emitted
    /\ Len(Regions) < Cardinality(Canonical)
    /\ Len(Regions) > 0
    /\ Len(tables[i].header) = Cardinality(Canonical)

\* C2 (as stated): the columns of every emitted table are in ascending label
\* order for any order in which the masker returned its labels, also when no
\* canonical region is missing.
ColumnsAscending ==
    \A k \in wrote : IsAscending(tables[k].header)

\* C3: in the emitted table the column of a canonical label the masker did
\* not return is all zeros, one entry per time point, and the column of a
\* label it returned equals the extracted means for that label.
ZeroFill ==
    Emitted =>
        \A l \in Canonical :
            /\ l \in Range(tables[i].header)
            /\ Column(tables[i], l) =
                 IF l \in Range(Regions)
                 THEN [t \in 1..Len(time_series) |->
                          time_series[t][IndexOf(Regions, l)]]
                 ELSE [t \in 1..Len(time_series) |-> 0]

\* C3 witness: of canonical {1,2} only region 2 was returned, over two time
\* points; the emitted column 1 is zero and column 2 holds the means.
ZeroFillWitness ==
    /\ Emitted
    /\ Canonical = {1, 2}
    /\ Regions = <<2>>
    /\ Len(time_series) = 2
    /\ Column(tables[i], 1) = <<0, 0>>
    /\ Column(tables[i], 2) = <<time_series[1][1], time_series[2][1]>>
    /\ Column(tables[i], 2) # <<0, 0>>

\* C4 (as stated): any two tables emitted against the same atlas have the
\* same header row, the same labels in the same order.
SameHeader ==
    \A a, b \in wrote : tables[a].header = tables[b].header

\* C5 (as stated): a fatal failure of one call never aborts the batch; it is
\* counted in error_count and the loop goes on to the summary.
FailureIsolated ==
    /\ bpc # "aborted"
    /\ error_count = Cardinality({k \in 1..(i - 1) : status[k] \in FatalStatuses})
    /\ bpc = "done" => \A k \in 1..nfiles : status[k] \notin {"none", "running"}

\* C6 (as stated): once a call has ended, by return or by any failure, its
\* temporary aligned atlas no longer exists.
AlignedTmpRemoved ==
    \A k \in 1..nfiles :
        status[k] \in FatalStatuses \cup {"ok"} => k \notin alignedTmp

\* C7: when a transform is supplied and the registration tool exits
\* non-zero, the call ends fatally, the resampler is never invoked for that
\* input, no output table is written and no temporary reference is left.
AntsFailureFatal ==
    \A k \in 1..nfiles :
        status[k] = "ants_fail" =>
            /\ k = i
            /\ cpc = "exited" \/ bpc = "aborted"
            /\ ~resampled
            /\ k \notin wrote
            /\ ~tables[k].exists
            /\ k \notin refTmp

\* C7 witness: the tool failed on a 4-D target, for which a temporary
\* reference volume had been created.
AntsFailureWitness ==
    /\ i \in 1..nfiles
    /\ status[i] = "ants_fail"
    /\ cpc = "exited"
    /\ transform_path
    /\ is4d
    /\ i \notin refTmp

\* C8: the table is written only after alignment, extraction and
\* reconciliation succeeded, in that order, and a call that ended in a fatal
\* failure has written nothing to its output path.
WriteIsLast ==
    /\ "write" \in Range(progress) =>
           progress = <<"align", "extract", "reconcile", "write">>
    /\ \A k \in 1..nfiles :
           /\ k \in wrote => status[k] = "ok"
           /\ status[k] \in FatalStatuses => ~tables[k].exists

\* C8 witness: one call wrote its table and the next failed after
\* extraction had already succeeded.
WriteIsLastWitness ==
    /\ nfiles >= 2
    /\ 1 \in wrote
    /\ i = 2
    /\ status[2] = "reconcile_error"
    /\ progress = <<"align", "extract">>

\* C9: the emitted table has one row per time point of the input, and row t
\* holds the means extracted at time t.
RowsPreserved ==
    Emitted =>
        /\ Len(tables[i].rows) = Len(time_series)
        /\ \A t \in 1..Len(tables[i].rows) :
              \A c \in 1..Len(Regions) :
                  Regions[c] \in Range(tables[i].header) =>
                      tables[i].rows[t][IndexOf(tables[i].header, Regions[c])]
                          = time_series[t][c]

\* C9 witness: a table of two rows that differ was emitted after padding.
RowsPreservedWitness ==
    /\ Emitted
    /\ Len(time_series) = 2
    /\ Len(Regions) < Cardinality(Canonical)
    /\ tables[i].rows[1] # tables[i].rows[2]

\* C10: reconciling an emitted table again, against the same canonical
\* region set, returns the same columns in the same order with the same
\* values.
ReconcileIdempotent ==
    \A k \in wrote :
        LET again == Reconcile(tables[k].rows, tables[k].header,
                               CanonicalLabels(atlas))
        IN  /\ again.ok
            /\ again.columns = tables[k].header
            /\ again.rows = tables[k].rows

\* C10 witness: the emitted table came out of padding and reordering, of
\* an atlas that also holds the background value.
ReconcileIdempotentWitness ==
    /\ Emitted
    /\ 0 \in atlas
    /\ Len(Regions) < Cardinality(Canonical)
    /\ tables[i].header = CanonicalLabels(atlas)
    /\ Len(tables[i].header) > 1

\* C11: on both paths the aligned atlas has the shape of the 3-D reference
\* (the spatial grid of the target, its first time point if it is 4-D) and
\* each of its voxel values is 0 or a value of the original atlas.
AlignedLabelPreserving ==
    aligned # NoImage =>
        /\ aligned.shape = <<target_shape[1]>>
        /\ aligned.values \subseteq atlas \cup {0}

\* C11 witness: an atlas whose labels are not contiguous was resampled onto
\* the first time point of a 4-D target.
AlignedLabelPreservingWitness ==
    /\ cpc = "extract"
    /\ resampled
    /\ Len(target_shape) = 2
    /\ atlas = {2}
    /\ aligned.shape = <<2>>
    /\ aligned.values = {0, 2}

\* C12: an input whose output table exists when the loop reaches it is
\* passed over, extract_timeseries is not entered and no table changes; so
\* while every output exists, as in a run that follows one which emitted
\* them all, no step of the batch enters extract_timeseries or changes a
\* table.
SkipExisting ==
    [][/\ (bpc = "loop" /\ i <= nfiles /\ tables[i].exists) =>
              (tables' = tables /\ bpc' = "loop" /\ cpc' = "idle"
               /\ i' = i + 1)
       /\ (bpc \in {"loop", "done"} /\ \A k \in 1..nfiles : tables[k].exists) =>
              (tables' = tables /\ cpc' = "idle" /\ bpc' # "call")]_vars

\* C12 witness: a second run over two inputs has ended; both tables, written
\* by the first run, were found and passed over.
SkipExistingWitness ==
    /\ bpc = "done"
    /\ nfiles = 2
    /\ success_count = 0
    /\ error_count = 0
    /\ wrote = {}
    /\ \A k \in 1..nfiles :
          status[k] = "skipped" /\ tables[k].header # <<>>

\* C13: no emitted table has a column for the background label 0 (nor for a
\* background entry of the masker's label list), and the column labelled
\* with a region holds that region's signal column.
NoBackgroundColumn ==
    /\ \A k \in wrote :
          0 \notin Range(tables[k].header) /\ BgName \notin Range(tables[k].header)
    /\ Emitted =>
          \A c \in 1..Len(Regions) :
              /\ Regions[c] \in Range(tables[i].header)
              /\ Column(tables[i], Regions[c]) =
                    [t \in 1..Len(time_series) |-> time_series[t][c]]

\* C13 witness: the original atlas holds the value 0, the masker's label
\* list came with a leading background entry, and a table was emitted after
\* padding.
NoBackgroundColumnWitness ==
    /\ Emitted
    /\ 0 \in atlas
    /\ Len(extracted_labels) = Len(Regions) + 1
    /\ Len(Regions) = 1
    /\ Len(tables[i].header) = 2

====
